---- MODULE Spec2Model ----
(***************************************************************************)
(* A model of the GGPK archive reader (src/ggpk.py): the byte source and   *)
(* its shared read position, the header and record decoders working on the *)
(* bytes themselves, lazy child pointers, directory iteration, extraction  *)
(* and the life cycle of the file handle.                                  *)
(*                                                                         *)
(* Bytes are integers 0..255.  Field values are kept below 2^31; Python    *)
(* integers are unbounded, so no width is lost below that.                 *)
(***************************************************************************)
EXTENDS Integers, Sequences, FiniteSets, TLC

VARIABLES
  fx,        \* the fixture the archive bytes were laid out from (ground truth)
  src,       \* the bytes of the archive file on disk (never written)
  pc,        \* where the caller is in  with File(filename) as f: ...
  fd,        \* the file handle: "none", "open" or "closed"
  closes,    \* how many times fd.close() has run
  pos,       \* the read position of the shared handle (fd.tell())
  header,    \* self.header
  root,      \* self.__root_dir
  gens,      \* the generators made by DirectoryEntry.__iter__
  got,       \* what the caller's latest call returned
  log,       \* every _read_entry call so far: where it started, what it returned
  resolved,  \* every ChildPointer.read so far: pointer, position before, result
  ops        \* number of calls the caller has made inside the with block

vars == <<fx, src, pc, fd, closes, pos, header, root, gens, got, log, resolved, ops>>

----------------------------------------------------------------------------
(* Bounds of the model *)

MaxChildren == 2
MaxGens == 2
MaxCut == 4

(* Sizes the code fixes *)

HeaderSize == 28
EntrySize == 8
PdirInfoSize == 8
PdirChildSize == 12
FileInfoSize == 4
Reserved == 32

\* calls inside the with block: enough to make a generator and run it to its end
MaxOps == MaxChildren + 3

Min(a, b) == IF a < b THEN a ELSE b

----------------------------------------------------------------------------
(* struct: little-endian packing and unpacking *)

RECURSIVE PackLE(_, _)
PackLE(n, width) ==
  IF width = 0 THEN <<>> ELSE <<n % 256>> \o PackLE(n \div 256, width - 1)

RECURSIVE UnpackU(_)
UnpackU(bytes) ==
  IF bytes = <<>> THEN 0 ELSE Head(bytes) + 256 * UnpackU(Tail(bytes))

\* '<i': two's complement, 4 bytes
UnpackI32(bytes) ==
  IF bytes[4] < 128 THEN UnpackU(bytes)
  ELSE -1 - UnpackU([i \in 1..4 |-> 255 - bytes[i]])

----------------------------------------------------------------------------
(* Values the reader returns *)

DirectoryEntry(name, children) ==
  [kind |-> "DirectoryEntry", name |-> name, children |-> children,
   where |-> <<>>, exc |-> ""]

FileEntry(name, where) ==
  [kind |-> "FileEntry", name |-> name, children |-> <<>>,
   where |-> where, exc |-> ""]

None == [kind |-> "None", name |-> <<>>, children |-> <<>>, where |-> <<>>, exc |-> ""]

Raise(e) == [kind |-> "Raise", name |-> <<>>, children |-> <<>>, where |-> <<>>, exc |-> e]

Bytes(b) == [kind |-> "bytes", name |-> b, children |-> <<>>, where |-> <<>>, exc |-> ""]

\* the result of one step of the reader: a value, the handle's position after
\* it, and the _read_entry calls made so far
Ret(v, p, l) == [v |-> v, pos |-> p, log |-> l]

----------------------------------------------------------------------------
(* The file object: fd.read(n) at position p of source s *)

FdGot(p, buf) == [ok |-> TRUE, buf |-> buf, pos |-> p + Len(buf)]

FdRead(s, p, n) ==
  IF n < -1 THEN [ok |-> FALSE, buf |-> <<>>, pos |-> p]
  ELSE IF p >= Len(s) \/ n = 0 THEN FdGot(p, <<>>)
  ELSE FdGot(p, SubSeq(s, p + 1, IF n = -1 THEN Len(s) ELSE Min(p + n, Len(s))))

\* _read_struct: fd.read(s.size), then unpack_from, which needs the whole size
Unpacked(r, size) == [ok |-> Len(r.buf) = size, buf |-> r.buf, pos |-> r.pos]

ReadStruct(s, p, size) == Unpacked(FdRead(s, p, size), size)

----------------------------------------------------------------------------
(* _decode_str: bytes.decode('utf16'), then rstrip('\x00') at the callers *)

Unit(b, i, big) ==
  IF big THEN 256 * b[2 * i - 1] + b[2 * i] ELSE b[2 * i - 1] + 256 * b[2 * i]

IsHigh(u) == u >= 55296 /\ u <= 56319
IsLow(u)  == u >= 56320 /\ u <= 57343

RECURSIVE DecodeUnits(_)
DecodeUnits(u) ==
  IF u = <<>> THEN [ok |-> TRUE, s |-> <<>>]
  ELSE IF IsLow(u[1]) THEN [ok |-> FALSE, s |-> <<>>]
  ELSE IF IsHigh(u[1]) THEN
    IF Len(u) >= 2 /\ IsLow(u[2])
    THEN LET rest == DecodeUnits(SubSeq(u, 3, Len(u)))
         IN  [ok |-> rest.ok,
              s  |-> <<65536 + (u[1] - 55296) * 1024 + (u[2] - 56320)>> \o rest.s]
    ELSE [ok |-> FALSE, s |-> <<>>]
  ELSE LET rest == DecodeUnits(Tail(u))
       IN  [ok |-> rest.ok, s |-> <<u[1]>> \o rest.s]

DecodeStr(b) ==
  IF Len(b) % 2 = 1 THEN [ok |-> FALSE, s |-> <<>>]
  ELSE LET bom == IF Len(b) >= 2 THEN SubSeq(b, 1, 2) ELSE <<>>
           big == bom = <<254, 255>>
           b2  == IF bom = <<255, 254>> \/ big THEN SubSeq(b, 3, Len(b)) ELSE b
       IN  DecodeUnits([i \in 1..(Len(b2) \div 2) |-> Unit(b2, i, big)])

RECURSIVE RStripNul(_)
RStripNul(s) ==
  IF s # <<>> /\ s[Len(s)] = 0 THEN RStripNul(SubSeq(s, 1, Len(s) - 1)) ELSE s

----------------------------------------------------------------------------
(* Tags *)

GGPK == <<71, 71, 80, 75>>
PDIR == <<80, 68, 73, 82>>
FILE == <<70, 73, 76, 69>>
FREE == <<70, 82, 69, 69>>
JUNK == <<74, 85, 78, 75>>
XXXX == <<88, 88, 88, 88>>

----------------------------------------------------------------------------
(* FileHeader.read *)

FileHeader(version, identifier, rootoffs) ==
  [version |-> version, identifier |-> identifier, rootoffs |-> rootoffs]

NoHeader == FileHeader(0, <<>>, 0)

\* '<I4sIQQ': version, identifier, unknown, root offset, unknown
HeaderUnpacked(r) ==
  IF ~r.ok THEN [v |-> Raise("struct.error"), h |-> NoHeader, pos |-> r.pos]
  ELSE [v |-> None,
        h |-> FileHeader(UnpackU(SubSeq(r.buf, 1, 4)), SubSeq(r.buf, 5, 8),
                         UnpackU(SubSeq(r.buf, 13, 20))),
        pos |-> r.pos]

FileHeaderRead(s, p) == HeaderUnpacked(ReadStruct(s, p, HeaderSize))

----------------------------------------------------------------------------
(* _read_pdir *)

\* the loop over the child table: '<IQ' checksum, child offset; the handle is
\* back at nextpos after each entry
RECURSIVE ReadChildren(_, _, _, _)
ReadChildren(s, p, n, acc) ==
  IF n = 0 THEN [ok |-> TRUE, children |-> acc, pos |-> p]
  ELSE LET c == ReadStruct(s, p, PdirChildSize)
       IN  IF ~c.ok THEN [ok |-> FALSE, children |-> acc, pos |-> c.pos]
           ELSE ReadChildren(s, c.pos, n - 1,
                             Append(acc, UnpackU(SubSeq(c.buf, 5, 12))))

\* the name is decoded and stripped, then the child table is read
PdirChildren(l, dec, p, kids) ==
  IF ~dec.ok THEN Ret(Raise("UnicodeDecodeError"), p, l)
  ELSE IF ~kids.ok THEN Ret(Raise("struct.error"), kids.pos, l)
  ELSE Ret(DirectoryEntry(RStripNul(dec.s), kids.children), kids.pos, l)

PdirName(s, l, childcount, nm) ==
  IF ~nm.ok THEN Ret(Raise("ValueError"), nm.pos, l)
  ELSE PdirChildren(l, DecodeStr(nm.buf), nm.pos,
                    ReadChildren(s, nm.pos, childcount, <<>>))

\* '<iI' name length, child count; 0x20 bytes skipped; the name's bytes read
PdirInfo(s, l, info) ==
  IF ~info.ok THEN Ret(Raise("struct.error"), info.pos, l)
  ELSE PdirName(s, l, UnpackU(SubSeq(info.buf, 5, 8)),
                FdRead(s, info.pos + Reserved, UnpackI32(SubSeq(info.buf, 1, 4)) * 2))

\* as _read_pdir, but decoding every child while the table is read (the
\* eager reading the "Read the child right now" seek is left over from)
ChildrenDecoded(r) ==
  IF r.v.kind # "DirectoryEntry" THEN r
  ELSE Ret(r.v, r.pos,
           r.log \o [i \in 1..Len(r.v.children) |-> [at |-> r.v.children[i], v |-> None]])

ReadPdirEager(s, p, l) == ChildrenDecoded(PdirInfo(s, l, ReadStruct(s, p, PdirInfoSize)))

ReadPdir(s, p, l) == PdirInfo(s, l, ReadStruct(s, p, PdirInfoSize))

----------------------------------------------------------------------------
(* _read_file *)

\* offs = fd.tell() behind the name; size = nextoffs - offs
FileExtent(l, nextoffs, offs, dec) ==
  IF ~dec.ok THEN Ret(Raise("UnicodeDecodeError"), offs, l)
  ELSE Ret(FileEntry(RStripNul(dec.s), <<offs, nextoffs - offs>>), offs, l)

FileName(l, nextoffs, nm) ==
  IF ~nm.ok THEN Ret(Raise("ValueError"), nm.pos, l)
  ELSE FileExtent(l, nextoffs, nm.pos, DecodeStr(nm.buf))

\* '<i' name length; 0x20 bytes skipped; the name's bytes read
FileInfo(s, l, nextoffs, info) ==
  IF ~info.ok THEN Ret(Raise("struct.error"), info.pos, l)
  ELSE FileName(l, nextoffs,
                FdRead(s, info.pos + Reserved, UnpackI32(info.buf) * 2))

ReadFile(s, p, l, nextoffs) == FileInfo(s, l, nextoffs, ReadStruct(s, p, FileInfoSize))

----------------------------------------------------------------------------
(* _read_entry *)

\* as the dispatch, with a rejecting last branch and no branch for 'FREE'
DispatchNoFree(s, p, l, curoffs, nextoffs, enttype) ==
  IF enttype = PDIR THEN ReadPdir(s, p, l)
  ELSE IF enttype = FILE THEN ReadFile(s, p, l, curoffs + nextoffs)
  ELSE Ret(Raise("FormatError"), p, l)

\* the dispatch on the tag; a tag that matches no branch falls off the end of
\* the function, which returns None as the 'FREE' branch does
Dispatch(s, p, l, curoffs, nextoffs, enttype) ==
  IF enttype = PDIR THEN ReadPdir(s, p, l)
  ELSE IF enttype = FILE THEN ReadFile(s, p, l, curoffs + nextoffs)
  ELSE IF enttype = FREE THEN Ret(None, p, l)
  ELSE Ret(None, p, l)

\* '<I4s' next offset, type; curoffs = fd.tell() before it
EntryHeader(s, l, curoffs, h) ==
  IF ~h.ok THEN Ret(Raise("struct.error"), h.pos, l)
  ELSE Dispatch(s, h.pos, l, curoffs, UnpackU(SubSeq(h.buf, 1, 4)), SubSeq(h.buf, 5, 8))

\* the call and what it returned (or raised), kept for the record
Logged(curoffs, r) == Ret(r.v, r.pos, Append(r.log, [at |-> curoffs, v |-> r.v]))

ReadEntry(s, p, l) == Logged(p, EntryHeader(s, l, p, ReadStruct(s, p, EntrySize)))

----------------------------------------------------------------------------
(* ChildPointer.read: seek to the stored offset, then decode *)

\* as ChildPointer.read without its seek: decoding from wherever the handle is
ChildPointerReadNoSeek(s, p, l, where) == ReadEntry(s, p, l)

ChildPointerRead(s, p, l, where) == ReadEntry(s, where, l)

----------------------------------------------------------------------------
(* File.extract: seek to file.where[0], read file.where[1] bytes *)

Extracted(r) ==
  IF ~r.ok THEN [v |-> Raise("ValueError"), pos |-> r.pos]
  ELSE [v |-> Bytes(r.buf), pos |-> r.pos]

Extract(s, p, file) == Extracted(FdRead(s, file.where[1], file.where[2]))

----------------------------------------------------------------------------
(* Archive images: a tree of record descriptions laid out depth first, each   *)
(* record followed by its children's subtrees, behind the header.            *)
(* delta = -1 stands for the record's own size (the next record's boundary). *)

Rec(tag, name, data, kids, delta) ==
  [tag |-> tag, name |-> name, data |-> data, kids |-> kids, delta |-> delta]

Zeros(n) == [i \in 1..n |-> 0]

RECURSIVE EncName(_)
EncName(name) ==
  IF name = <<>> THEN <<0, 0>>
  ELSE <<Head(name) % 256, Head(name) \div 256>> \o EncName(Tail(name))

RecSize(r) ==
  EntrySize +
  (IF r.tag = PDIR
     THEN PdirInfoSize + Reserved + 2 * (Len(r.name) + 1) + PdirChildSize * Len(r.kids)
   ELSE IF r.tag = FILE
     THEN FileInfoSize + Reserved + 2 * (Len(r.name) + 1) + Len(r.data)
   ELSE Len(r.data))

RECURSIVE SubtreeSize(_)
RECURSIVE SubtreesSize(_, _)
SubtreeSize(r) == RecSize(r) + SubtreesSize(r.kids, Len(r.kids))
SubtreesSize(kids, n) ==
  IF n = 0 THEN 0 ELSE SubtreesSize(kids, n - 1) + SubtreeSize(kids[n])

\* where the i-th child of record r, itself at offset at, is laid out
KidOffset(r, at, i) == at + RecSize(r) + SubtreesSize(r.kids, i - 1)

RECURSIVE ChildTable(_, _, _)
ChildTable(r, at, i) ==
  IF i > Len(r.kids) THEN <<>>
  ELSE PackLE(0, 4) \o PackLE(KidOffset(r, at, i), 8) \o ChildTable(r, at, i + 1)

EncodeRec(r, at) ==
  PackLE(IF r.delta < 0 THEN RecSize(r) ELSE r.delta, 4) \o r.tag \o
  (IF r.tag = PDIR
     THEN PackLE(Len(r.name) + 1, 4) \o PackLE(Len(r.kids), 4) \o Zeros(Reserved)
          \o EncName(r.name) \o ChildTable(r, at, 1)
   ELSE IF r.tag = FILE
     THEN PackLE(Len(r.name) + 1, 4) \o Zeros(Reserved) \o EncName(r.name) \o r.data
   ELSE r.data)

RECURSIVE EncodeTree(_, _)
RECURSIVE EncodeKids(_, _, _)
EncodeTree(r, at) == EncodeRec(r, at) \o EncodeKids(r, at, 1)
EncodeKids(r, at, i) ==
  IF i > Len(r.kids) THEN <<>>
  ELSE EncodeTree(r.kids[i], KidOffset(r, at, i)) \o EncodeKids(r, at, i + 1)

EncodeHeader(magic) ==
  PackLE(2, 4) \o magic \o PackLE(0, 4) \o PackLE(HeaderSize, 8) \o PackLE(0, 8)

Image(magic, tree) == EncodeHeader(magic) \o EncodeTree(tree, HeaderSize)

\* the record description a path of child indexes leads to, and its offset
RECURSIVE NodeAt(_, _)
NodeAt(r, path) == IF path = <<>> THEN r ELSE NodeAt(r.kids[Head(path)], Tail(path))

RECURSIVE OffsetAt(_, _, _)
OffsetAt(r, at, path) ==
  IF path = <<>> THEN at
  ELSE OffsetAt(r.kids[Head(path)], KidOffset(r, at, Head(path)), Tail(path))

----------------------------------------------------------------------------
(* The fixtures *)

FileX   == Rec(FILE, <<120>>, <<104, 105>>, <<>>, -1)          \* "x" holding "hi"
FileY   == Rec(FILE, <<121>>, <<121, 111>>, <<>>, -1)          \* "y" holding "yo"
FileNeg == Rec(FILE, <<110>>, <<110, 111>>, <<>>, EntrySize + FileInfoSize + Reserved + 3)
Free    == Rec(FREE, <<>>, <<>>, <<>>, -1)
Junk    == Rec(JUNK, <<>>, <<>>, <<>>, -1)
DirD    == Rec(PDIR, <<100>>, <<>>, <<FileY>>, -1)             \* "d" with one file

KidKinds == {FileX, FileNeg, Free, Junk, DirD}

KidSeqs(n) == UNION {[1..k -> KidKinds] : k \in 0..n}

Trees(n) == {Rec(PDIR, <<>>, <<>>, ks, -1) : ks \in KidSeqs(n)} \cup {FileX, Free, Junk}

Fixture(magic, tree, size) == [magic |-> magic, tree |-> tree, size |-> size]

FullSize(tree) == HeaderSize + SubtreeSize(tree)

\* sizes short of the whole image: up to MaxCut bytes off the end, or cut in
\* the header, right behind it, or in the root record's entry header
CutSizes(tree) ==
  {FullSize(tree) - c : c \in 1..MaxCut} \cup
  {HeaderSize - 1, HeaderSize, HeaderSize + EntrySize - 1}

\* a root directory holding FILE "x", FREE, FILE "y"
Scenario == Rec(PDIR, <<>>, <<>>, <<FileX, Free, FileY>>, -1)

FixtureSet ==
  {Fixture(GGPK, t, FullSize(t)) : t \in Trees(MaxChildren) \cup {Scenario}}
  \cup {Fixture(XXXX, t, FullSize(t)) : t \in Trees(1)}
  \cup UNION {{Fixture(GGPK, t, n) : n \in CutSizes(t)} : t \in Trees(1)}

----------------------------------------------------------------------------
(* The caller:  with File(filename) as f:  calls on f and on what it returns *)

Call(op, arg, v) == [op |-> op, arg |-> arg, v |-> v]

NoCall == Call("", None, None)

StopIteration == Raise("StopIteration")

Generator(children, path) ==
  [children |-> children, path |-> path, yielded |-> <<>>, st |-> "suspended"]

\* File.__read_fs: seek to the root offset, decode what is there
ReadFs(s, p, l, h) == ReadEntry(s, h.rootoffs, l)

\* File.root
RootOf(r) == r

\* what the generators have yielded so far, each with the path it came by
Yielded ==
  UNION {{[v |-> gens[g].yielded[i], path |-> Append(gens[g].path, i)] :
            i \in DOMAIN gens[g].yielded} : g \in DOMAIN gens}

\* the DirectoryEntry and FileEntry values the caller holds
HeldDirs ==
  (IF root.kind = "DirectoryEntry" THEN {[v |-> root, path |-> <<>>]} ELSE {})
  \cup {y \in Yielded : y.v.kind = "DirectoryEntry"}

HeldFiles ==
  (IF root.kind = "FileEntry" THEN {root} ELSE {})
  \cup {y.v : y \in {z \in Yielded : z.v.kind = "FileEntry"}}

Init ==
  /\ fx \in FixtureSet
  /\ src = SubSeq(Image(fx.magic, fx.tree), 1, fx.size)
  /\ pc = "start"
  /\ fd = "none"
  /\ closes = 0
  /\ pos = 0
  /\ header = NoHeader
  /\ root = None
  /\ gens = <<>>
  /\ got = NoCall
  /\ log = <<>>
  /\ resolved = <<>>
  /\ ops = 0

\* File.__init__, line 26: open(filename, 'rb')
Open ==
  /\ pc = "start"
  /\ \/ /\ fd' = "open"
        /\ pc' = "init_header"
        /\ got' = got
     \/ /\ fd' = fd
        /\ pc' = "raised"
        /\ got' = Call("File", None, Raise("IOError"))
  /\ pos' = 0
  /\ UNCHANGED <<fx, src, closes, header, root, gens, log, resolved, ops>>

\* File.__init__, line 27: self.header = FileHeader.read(self.fd)
HeaderRead(r) ==
  /\ pos' = r.pos
  /\ IF r.v.kind = "Raise"
     THEN /\ pc' = "raised"
          /\ got' = Call("File", None, r.v)
          /\ header' = header
     ELSE /\ pc' = "init_fs"
          /\ got' = got
          /\ header' = r.h

ReadHeader ==
  /\ pc = "init_header"
  /\ HeaderRead(FileHeaderRead(src, pos))
  /\ UNCHANGED <<fx, src, fd, closes, root, gens, log, resolved, ops>>

\* File.__init__, line 28: self.__read_fs()
RootRead(r) ==
  /\ pos' = r.pos
  /\ log' = r.log
  /\ IF r.v.kind = "Raise"
     THEN /\ pc' = "raised"
          /\ got' = Call("File", None, r.v)
          /\ root' = root
     ELSE /\ pc' = "constructed"
          /\ got' = got
          /\ root' = r.v

ReadRoot ==
  /\ pc = "init_fs"
  /\ RootRead(ReadFs(src, pos, log, header))
  /\ UNCHANGED <<fx, src, fd, closes, header, gens, resolved, ops>>

\* File.__enter__
Enter ==
  /\ pc = "constructed"
  /\ pc' = "with"
  /\ UNCHANGED <<fx, src, fd, closes, pos, header, root, gens, got, log, resolved, ops>>

\* File.__exit__: runs when the with block is left, by its end or by an exception
Exit ==
  /\ pc = "with"
  /\ pc' = "exited"
  /\ fd' = "closed"
  /\ closes' = closes + 1
  /\ UNCHANGED <<fx, src, pos, header, root, gens, got, log, resolved, ops>>

\* f.root()
Root ==
  /\ pc = "with"
  /\ ops < MaxOps
  /\ got' = Call("root", None, RootOf(root))
  /\ ops' = ops + 1
  /\ UNCHANGED <<fx, src, pc, fd, closes, pos, header, root, gens, log, resolved>>

\* iter(d) on a directory the caller holds: a new generator, no code of it run yet
Iter ==
  /\ pc = "with"
  /\ ops < MaxOps
  /\ Len(gens) < MaxGens
  /\ \E d \in HeldDirs :
       /\ gens' = Append(gens, Generator(d.v.children, d.path))
       /\ got' = Call("iter", d.v, None)
  /\ ops' = ops + 1
  /\ UNCHANGED <<fx, src, pc, fd, closes, pos, header, root, log, resolved>>

\* next(g): DirectoryEntry.__iter__ runs to its next yield, to its end, or raises
Stopped(g) ==
  /\ gens' = [gens EXCEPT ![g].st = "done"]
  /\ got' = Call("next", None, StopIteration)
  /\ UNCHANGED <<pos, log, resolved>>

ChildRead(g, where, r) ==
  /\ pos' = r.pos
  /\ log' = r.log
  /\ resolved' = Append(resolved, [where |-> where, before |-> pos, v |-> r.v])
  /\ got' = Call("next", None, r.v)
  /\ gens' = IF r.v.kind = "Raise"
             THEN [gens EXCEPT ![g].st = "raised"]
             ELSE [gens EXCEPT ![g].yielded = Append(@, r.v)]

Resume(g, children, i) ==
  IF i > Len(children) THEN Stopped(g)
  ELSE ChildRead(g, children[i], ChildPointerRead(src, pos, log, children[i]))

NextChild ==
  /\ pc = "with"
  /\ ops < MaxOps
  /\ \E g \in DOMAIN gens :
       /\ gens[g].st = "suspended"
       /\ Resume(g, gens[g].children, Len(gens[g].yielded) + 1)
  /\ ops' = ops + 1
  /\ UNCHANGED <<fx, src, pc, fd, closes, header, root>>

\* f.extract(file) on a file the caller holds
Returned(f, r) ==
  /\ pos' = r.pos
  /\ got' = Call("extract", f, r.v)

ExtractFile ==
  /\ pc = "with"
  /\ ops < MaxOps
  /\ \E f \in HeldFiles : Returned(f, Extract(src, pos, f))
  /\ ops' = ops + 1
  /\ UNCHANGED <<fx, src, pc, fd, closes, header, root, gens, log, resolved>>

Next ==
  \/ Open
  \/ ReadHeader
  \/ ReadRoot
  \/ Enter
  \/ Exit
  \/ Root
  \/ Iter
  \/ NextChild
  \/ ExtractFile

Spec == Init /\ [][Next]_vars

----------------------------------------------------------------------------
(* What the claims speak of *)

\* the 4-byte tag of the record at offset at, <<>> when the source ends first
TagAt(at) == IF at + EntrySize <= Len(src) THEN SubSeq(src, at + 5, at + 8) ELSE <<>>

Whole == fx.size = FullSize(fx.tree)

Constructed == pc \in {"constructed", "with", "exited"}

\* the value the record description d, laid out at offset at, stands for
Expected(v, d, at) ==
  IF d.tag = PDIR
    THEN v = DirectoryEntry(d.name, [i \in 1..Len(d.kids) |-> KidOffset(d, at, i)])
  ELSE IF d.tag = FILE
    THEN LET start == at + EntrySize + FileInfoSize + Reserved + 2 * (Len(d.name) + 1)
             next  == at + (IF d.delta < 0 THEN RecSize(d) ELSE d.delta)
         IN  v = FileEntry(d.name, <<start, next - start>>)
  ELSE IF d.tag = FREE THEN v = None
  ELSE TRUE

\* C1: opening an archive whose header identifier is not 'GGPK' fails with
\* FormatError before any record is decoded (no _read_entry call is made).
C1_BadMagicRejected ==
  (/\ Len(src) >= HeaderSize
   /\ SubSeq(src, 5, 8) # GGPK
   /\ pc \notin {"start", "init_header"}
   /\ fd # "none")
  => (pc = "raised" /\ got.v = Raise("FormatError") /\ log = <<>>)

\* C2: decoding a record whose tag is none of 'PDIR', 'FILE', 'FREE' fails
\* with FormatError; no value (and not the FREE result) reaches the caller.
C2_UnknownTagRaises ==
  \A k \in DOMAIN log :
    (TagAt(log[k].at) # <<>> /\ TagAt(log[k].at) \notin {PDIR, FILE, FREE})
    => log[k].v = Raise("FormatError")

\* C3: decoding a 'FREE' record returns the tombstone (None) without raising,
\* and that value differs from every Directory and every FileEntry the decoder
\* returns, both decoded directly and yielded as a member of a directory.
C3_FreeIsTombstone ==
  /\ \A k \in DOMAIN log :
       TagAt(log[k].at) = FREE =>
         /\ log[k].v = None
         /\ \A j \in DOMAIN log :
              log[j].v.kind \in {"DirectoryEntry", "FileEntry"} => log[j].v # log[k].v
  /\ \A k \in DOMAIN resolved :
       TagAt(resolved[k].where) = FREE => resolved[k].v.kind = "None"
  /\ \A y \in Yielded :
       TagAt(OffsetAt(fx.tree, HeaderSize, y.path)) = FREE =>
         /\ y.v = None
         /\ \A z \in Yielded :
              z.v.kind \in {"DirectoryEntry", "FileEntry"} => z.v # y.v

C3_Witness ==
  \E y \in Yielded :
    /\ NodeAt(fx.tree, y.path).tag = FREE
    /\ y.v = None
    /\ \E z \in Yielded : z.v.kind = "FileEntry"

\* C4: extract returns exactly file.length bytes from file.offset when the
\* source holds offset+length bytes, and fails with IOError when it does not.
C4_ExtractExact ==
  got.op = "extract" =>
    LET off == got.arg.where[1]
        len == got.arg.where[2]
    IN  IF Len(src) >= off + len
        THEN got.v.kind = "bytes" /\ Len(got.v.name) = len
             /\ got.v.name = SubSeq(src, off + 1, off + len)
        ELSE got.v = Raise("IOError")

\* C5: a FILE record whose computed length is negative fails with FormatError,
\* so every FileEntry the decoder returns has length >= 0.
C5_LengthNonNegative ==
  /\ \A k \in DOMAIN log :
       log[k].v.kind = "FileEntry" => log[k].v.where[2] >= 0
  /\ \A y \in Yielded : y.v.kind = "FileEntry" => y.v.where[2] >= 0

\* C6: over every lifetime the handle is closed exactly once: never twice,
\* never without having been opened, and no run ends (normally or with open
\* failing partway) with an opened handle still open.
C6_ClosedExactlyOnce ==
  /\ closes <= 1
  /\ (fd = "none" => closes = 0)
  /\ ((pc \in {"raised", "exited"} /\ fd # "none") => (fd = "closed" /\ closes = 1))

\* C7: open requires the record at header.rootOffset to be a Directory (else
\* FormatError), so after a successful open root() returns a Directory, the
\* one resolved at open, without reading the source again.
C7_RootIsDirectory ==
  /\ Constructed => root.kind = "DirectoryEntry"
  /\ (got.op = "root" => got.v = root)

C9_ResolveDeterministic ==
  /\ \A i, j \in DOMAIN resolved :
       resolved[i].where = resolved[j].where => resolved[i].v = resolved[j].v
  /\ \A k \in DOMAIN resolved :
       k + 1 \in DOMAIN log => log[k + 1].at = resolved[k].where

C9_Witness ==
  \E i, j \in DOMAIN resolved :
    /\ i < j
    /\ resolved[i].where = resolved[j].where
    /\ resolved[i].before # resolved[j].before
    /\ resolved[i].v.kind = "DirectoryEntry"
    /\ resolved[j].v = resolved[i].v
    /\ \E k \in DOMAIN resolved :
         /\ k > j
         /\ resolved[k].where # resolved[i].where
         /\ resolved[k].v.kind = "FileEntry"

\* C10: a FILE record at offset o with delta d and name length n decodes to a
\* FileEntry with offset = o + 8 + 4 + 0x20 + 2n and length = (o + d) - offset.
C10_ExtentFormula ==
  \A k \in DOMAIN log :
    log[k].v.kind = "FileEntry" =>
      LET o == log[k].at
          d == UnpackU(SubSeq(src, o + 1, o + 4))
          n == UnpackI32(SubSeq(src, o + 9, o + 12))
      IN  /\ log[k].v.where[1] = o + EntrySize + FileInfoSize + Reserved + 2 * n
          /\ log[k].v.where[2] = (o + d) - log[k].v.where[1]

====
